---- MODULE Spec2Model ----
(***************************************************************************)
(* Two-deck audio engine (app/audio/engine.py) with its per-deck EQ        *)
(* isolator (app/audio/filters.py).                                        *)
(*                                                                         *)
(* Floats are kept exactly as fixed-point integers: a playhead is counted  *)
(* in units of 1/PosDen frame, a rate in units of 1/RateDen, a mixer gain  *)
(* in units of 1/GainDen.  All values used are dyadic, so the arithmetic   *)
(* of the code on them is exact.                                           *)
(***************************************************************************)
EXTENDS Integers, Sequences, FiniteSets, TLC

\* ---------------------------------------------------------------- constants
SR == 48000
BLOCKSIZE == 256
CHANNELS == 2

PosDen == 2
RateDen == 512
GainDen == 10

Decks == {"A", "B"}

\* ------------------------------------------------------------------- inputs
\* Deck identifiers passed by callers: upper case, lower case and an unknown one.
DeckArgs == {"A", "b", "C"}

\* Arrays a caller may pass to load_pcm, by shape.
Pcm == << <<0, 2>>, <<100, 2>>, <<300, 2>>, <<100, 1>>, <<100>> >>
PcmArgs == 1..Len(Pcm)
\* The element type of each of those arrays.
PcmDtype == <<"float32", "float32", "float64", "float32", "float32">>
SrArgs == {48000, 44100}

\* Rates in units of 1/RateDen: -1.0, 0.0, 257/512 and 1.0.
RateArgs == {-512, 0, 257, 512}
SeekArgs == {-5, 50, 5000}
CueArgs == {1, 2}
\* float('nan'), float('inf') and float('-inf') among the numbers.
NaN == -1000000
Inf == 1000000
NegInf == -2000000
\* (low, mid, high) decibel settings.
EqArgs == << <<-80, 0, 6>>, <<NaN, -79, 7000>>, <<NegInf, Inf, 0>> >>
\* Crossfader / channel gain arguments in units of 1/GainDen.
XfArgs == {-5, 15, NaN}
GainArgs == {-5, 4, NaN}
\* Sample values in units of 1/GainDen that a deck's block can hold after its
\* EQ: -3.0 (a boosted band) and 0.4.
SampleArgs == {-30, 4}
\* Crossover frequencies in Hz and sample rates an isolator may be given.
CutArgs == {NaN, 0, 250, 2500, 20000, 21600, Inf}
EqSrArgs == {48000, 44100, 1000}
\* Blocks handed to an isolator: no frames, frames of zeros, frames of signal.
BlockArgs == {"empty", "zeros", "signal"}
\* Stereo rows (left, right) in 1/SampDen, and the blocks of at most
\* MaxBlockLen rows made of them, that a Biquad may be given.
RowArgs == {<<1000, -1000>>, <<-354, 200>>}
MaxBlockLen == 2
RowBlocks == UNION {[1..n -> RowArgs] : n \in 0..MaxBlockLen}
\* States (z1L, z2L, z1R, z2R) a Biquad may be in when the bench takes it up.
StateArgs == {<<0, 0, 0, 0>>, <<300, -200, -50, 10>>}
\* Blocks an isolator may be given: an impulse, eight rows of
\* 0.5 cos(2 pi 6000 n / SR) + 0.5 cos(2 pi 12000 n / SR) (right channel
\* inverted), and silence.
Signals ==
    << << <<1000, 1000>>, <<0, 0>>, <<0, 0>>, <<0, 0>> >>,
       << <<1000, -1000>>, <<354, -354>>, <<-500, 500>>, <<-354, 354>>,
          <<0, 0>>, <<-354, 354>>, <<-500, 500>>, <<354, -354>> >>,
       << <<0, 0>>, <<0, 0>> >>,
       << >> >>

\* Streams the output device can hold open at once.
MaxStreams == 2
\* Calls and callbacks explored in one behaviour (any caller / one deck).
MaxSteps == 4
MaxTransportSteps == 6
MaxConcSteps == 14
\* Calls made on the isolators in one behaviour.
MaxEqSteps == 3
\* Calls made on the filters in one behaviour.
MaxFilterSteps == 3
StreamIds == 1..MaxStreams

\* Arrays loaded while several threads call in.
ConcPcmArgs == {3}

\* Control threads calling into the engine concurrently.
Threads == {"t1", "t2"}

VARIABLES buffer, frames, playhead, rate, playing, hotcues, eq,
          crossfader, chanA, chanB, stream, devs, self_sr,
          raised, out, steps, pc, rt, lock, bq, iso, stages

deckVars == <<buffer, frames, playhead, rate, playing, hotcues, eq>>
mixVars == <<crossfader, chanA, chanB>>
streamVars == <<stream, devs>>
engineVars == <<deckVars, mixVars, streamVars>>
threadVars == <<pc, rt, lock>>
benchVars == <<bq, iso>>
vars == <<deckVars, mixVars, streamVars, self_sr, raised, out, steps, threadVars, benchVars,
          stages>>

\* ------------------------------------------------------------------ helpers
Min(a, b) == IF a < b THEN a ELSE b
Max(a, b) == IF a > b THEN a ELSE b

\* Python int(float): truncation toward zero, of a value in 1/PosDen units.
Trunc(ph) == IF ph >= 0 THEN ph \div PosDen ELSE -((-ph) \div PosDen)

\* numpy.clip(x, lo, hi) = minimum(hi, maximum(x, lo)).
Clip(x, lo, hi) == Min(hi, Max(x, lo))

\* Python's max(a, b) and min(a, b) on floats: the first argument is kept
\* unless the second compares greater (less), and every comparison with NaN
\* is false.
PyMax(a, b) == IF a # NaN /\ b # NaN /\ b > a THEN b ELSE a
PyMin(a, b) == IF a # NaN /\ b # NaN /\ b < a THEN b ELSE a

\* min(max(v, 0.0), 1.0) on a value in 1/GainDen units.
Clamp01(v) == PyMin(PyMax(v, 0), GainDen)

\* math.cos(p * (math.pi / 2.0)) in units of 1/TrigDen, for p in 1/GainDen
\* units; math.sin(p * (math.pi / 2.0)) is the same table read from its end.
TrigDen == 10000
CosTab == <<10000, 9877, 9511, 8910, 8090, 7071, 5878, 4540, 3090, 1564, 0>>
Cos(p) == IF p = NaN THEN NaN ELSE CosTab[p + 1]
Sin(p) == IF p = NaN THEN NaN ELSE CosTab[GainDen - p + 1]

\* Float products and sums of samples: NaN in, NaN out.
FMul3(g, c, x) ==
    IF g = NaN \/ c = NaN \/ x = NaN THEN NaN ELSE (g * c * x) \div (TrigDen * GainDen)
FAdd(a, b) == IF a = NaN \/ b = NaN THEN NaN ELSE a + b

\* np.clip(mix, -1.0, 1.0) on one sample: NaN stays NaN.
np_clip(m) == IF m = NaN THEN NaN ELSE Min(GainDen, Max(m, -GainDen))

\* str.upper() on the identifiers in use.
Upper(s) == IF s = "a" THEN "A" ELSE IF s = "b" THEN "B" ELSE s

\* Length of the Python slice buf[start:stop] of an array of n rows.
PyIndex(i, n) == IF i < 0 THEN Max(i + n, 0) ELSE Min(i, n)
PySliceLen(n, start, stop) == Max(PyIndex(stop, n) - PyIndex(start, n), 0)

\* AudioEngine._deck: the deck an identifier names, or "ValueError".
deck_of(deck) ==
    IF Upper(deck) = "A" THEN "A"
    ELSE IF Upper(deck) = "B" THEN "B"
    ELSE "ValueError"

\* ----------------------------------------------------------------- EQ state
\* EQIsolator: design point, three band gains and its four filter chains.
\* design: the cutoffs and the rate the chains were built for; dirty = FALSE
\* means every Biquad state variable is exactly zero (nothing but zeros
\* processed since the chains were built).
EQIsolator_init ==
    [sr |-> SR, low_cut |-> 250, high_cut |-> 2500,
     gains |-> <<0, 0, 0>>, design |-> <<250, 2500, SR>>, dirty |-> FALSE]

set_gains_db(e, g) == [e EXCEPT !.gains = g]

\* 10.0 ** (db / 20.0) in units of 1/LinDen, for the settings in use; from
\* OverflowDb on the power is no double and Python raises OverflowError.
LinDen == 100000
OverflowDb == 6166
PowTab == [db \in {-79, 0, 6} |-> IF db = -79 THEN 11 ELSE IF db = 0 THEN LinDen ELSE 199526]

\* np.isfinite(db)
IsFinite(db) == db \notin {NaN, Inf, NegInf}

\* _db_to_lin(db): the linear gain g, or raised.
db_to_lin(db) ==
    IF (db # NaN /\ db <= -80) \/ ~IsFinite(db)
    THEN [raised |-> FALSE, g |-> 0]
    ELSE IF db >= OverflowDb
    THEN [raised |-> TRUE, g |-> 0]
    ELSE [raised |-> FALSE, g |-> PowTab[db]]

\* EQIsolator.process, lines 204-206: a band's gain cannot be computed.
EqRaises(e) == \E band \in 1..3 : db_to_lin(e.gains[band]).raised
\* Some band of the isolator has a gain above zero.
EqOpen(e) == \E band \in 1..3 : db_to_lin(e.gains[band]).g > 0

\* EQIsolator.set_sample_rate: the four chains are built anew.
set_sample_rate(e, sr) ==
    [e EXCEPT !.sr = sr, !.design = <<e.low_cut, e.high_cut, sr>>, !.dirty = FALSE]

\* not (0 < low_cut < high_cut < sr * 0.45): a chained comparison of floats,
\* false as soon as one operand is NaN; sr * 0.45 is exact for the rates in
\* use, so the last comparison is made on 100 * high_cut and 45 * sr.
PyLt(a, b) == a # NaN /\ b # NaN /\ a < b
CrossoversOk(low_cut, high_cut, sr) ==
    /\ PyLt(0, low_cut)
    /\ PyLt(low_cut, high_cut)
    /\ high_cut # NaN /\ 100 * high_cut < 45 * sr

\* EQIsolator(sr, low_cut, high_cut): the new isolator e, or raised.
EQIsolator(sr, low_cut, high_cut) ==
    IF ~CrossoversOk(low_cut, high_cut, sr)
    THEN [raised |-> TRUE, e |-> EQIsolator_init]
    ELSE [raised |-> FALSE,
          e |-> [sr |-> sr, low_cut |-> low_cut, high_cut |-> high_cut,
                 gains |-> <<0, 0, 0>>, design |-> <<low_cut, high_cut, sr>>,
                 dirty |-> FALSE]]

\* EQIsolator.set_crossovers with the two assignments made before the check.
set_crossovers_late(e, low_cut, high_cut) ==
    IF ~CrossoversOk(low_cut, high_cut, e.sr)
    THEN [raised |-> TRUE, e |-> [e EXCEPT !.low_cut = low_cut, !.high_cut = high_cut]]
    ELSE [raised |-> FALSE,
          e |-> set_sample_rate([e EXCEPT !.low_cut = low_cut, !.high_cut = high_cut], e.sr)]

\* EQIsolator.set_crossovers: the isolator e afterwards, and raised.
set_crossovers(e, low_cut, high_cut) ==
    IF ~CrossoversOk(low_cut, high_cut, e.sr)
    THEN [raised |-> TRUE, e |-> e]
    ELSE [raised |-> FALSE,
          e |-> set_sample_rate([e EXCEPT !.low_cut = low_cut, !.high_cut = high_cut], e.sr)]

\* EQIsolator.reset: every Biquad state variable back to zero.
reset(e) == [e EXCEPT !.dirty = FALSE]

\* EQIsolator.process on a block with `copied` buffer frames in it.
eq_process(e, copied) == [e EXCEPT !.dirty = e.dirty \/ copied > 0]

\* --------------------------------------------------------- filter instances
\* stages[d]: the Biquad objects of deck d's isolator, s1 and s2 of _lp_low,
\* _hp_mid, _lp_mid and _hp_high in that order, each named by a number.  The
\* objects are followed where isolators are driven directly; an object made
\* by Biquad(...) is none of those alive at that moment.
Live(st) == {st[d][i] : d \in Decks, i \in 1..(2 * 4)}
Fresh(live) ==
    CHOOSE n \in 1..(Cardinality(live) + 1) :
        n \notin live /\ \A m \in 1..(n - 1) : m \in live

\* LR4Lowpass.__init__ / LR4Highpass.__init__ keeping one Biquad for both
\* stages.
LR4_shared(live) == <<Fresh(live), Fresh(live)>>

\* LR4Lowpass.__init__ / LR4Highpass.__init__: s1 = Biquad(b, a) and
\* s2 = Biquad(b, a), made while the objects in `live` are alive.
LR4(live) == <<Fresh(live), Fresh(live \cup {Fresh(live)})>>

\* The stages of an isolator whose chains 1..k have been made, one after the
\* other, while the objects in `live` were alive.
RECURSIVE MakeChains(_, _)
MakeChains(live, k) ==
    IF k = 0 THEN << >>
    ELSE LET made == MakeChains(live, k - 1)
             f == LR4(live \cup {made[i] : i \in DOMAIN made})
         IN  made \o f

\* DeckState.__init__ for deck A, then for deck B (engine.py 27-28, 20).
DeckStages ==
    LET a == MakeChains({}, 4)
    IN  [d \in Decks |-> IF d = "A" THEN a ELSE MakeChains({a[i] : i \in DOMAIN a}, 4)]

\* d.eq = EQIsolator(...): the new isolator is complete before the old one is
\* let go.
NewIsolator(st, d) == [st EXCEPT ![d] = MakeChains(Live(st), 4)]

\* EQIsolator.set_sample_rate, lines 175-178 from chain k on: each chain is
\* made and then takes the place of the one before it.
RECURSIVE Rebuild(_, _, _)
Rebuild(st, d, k) ==
    IF k > 4 THEN st
    ELSE LET f == LR4(Live(st))
         IN  Rebuild([st EXCEPT ![d][2 * k - 1] = f[1], ![d][2 * k] = f[2]], d, k + 1)

\* --------------------------------------------------------- filter arithmetic
\* Samples and filter state in 1/SampDen of full scale, coefficients in
\* 1/CoefDen; every product is rounded down to the sample grid.
SampDen == 1000
CoefDen == 100000
FixMul(x, c) == (x * c) \div CoefDen

\* _rbj_lowpass(fc, SR) and _rbj_highpass(fc, SR) for the cutoffs 250 and
\* 2500 Hz, divided by a0 as Biquad.__init__ does: (b0, b1, b2, a1, a2).
rbj_lowpass(fc) ==
    IF fc = 250 THEN <<26, 52, 26, -195373, 95477>>
    ELSE <<2162, 4324, 2162, -154312, 62960>>
rbj_highpass(fc) ==
    IF fc = 250 THEN <<97713, -195425, 97713, -195373, 95477>>
    ELSE <<79318, -158636, 79318, -154312, 62960>>

\* Biquad(b, a): normalised coefficients and the state of both channels.
Biquad(c) ==
    [b0 |-> c[1], b1 |-> c[2], b2 |-> c[3], a1 |-> c[4], a2 |-> c[5],
     z1L |-> 0, z2L |-> 0, z1R |-> 0, z2R |-> 0]

\* Biquad.reset
Biquad_reset(q) == [q EXCEPT !.z1L = 0, !.z2L = 0, !.z1R = 0, !.z2R = 0]

\* Biquad.process, the per-sample loop (lines 59-71) from row n of the block
\* x of (left, right) samples on; y: the rows written so far.
RECURSIVE Biquad_loop(_, _, _, _)
Biquad_loop(q, x, n, y) ==
    IF n > Len(x) THEN [q |-> q, y |-> y]
    ELSE LET xL == x[n][1]
             outL == FixMul(xL, q.b0) + q.z1L
             z1L == FixMul(xL, q.b1) + q.z2L - FixMul(outL, q.a1)
             z2L == FixMul(xL, q.b2) - FixMul(outL, q.a2)
             xR == x[n][2]
             outR == FixMul(xR, q.b0) + q.z1R
             z1R == FixMul(xR, q.b1) + q.z2R - FixMul(outR, q.a1)
             z2R == FixMul(xR, q.b2) - FixMul(outR, q.a2)
         IN  Biquad_loop([q EXCEPT !.z1L = z1L, !.z2L = z2L, !.z1R = z1R, !.z2R = z2R],
                         x, n + 1, Append(y, <<outL, outR>>))

\* Biquad.process starting every block from a state of zeros.
Biquad_process_fresh(q, x) == Biquad_loop(Biquad_reset(q), x, 1, << >>)

\* Biquad.process: the filter q afterwards and the block y it returns.
Biquad_process(q, x) == Biquad_loop(q, x, 1, << >>)

\* LR4Lowpass(fc, sr) / LR4Highpass(fc, sr): two Biquads of one design.
LR4Lowpass(fc) == [s1 |-> Biquad(rbj_lowpass(fc)), s2 |-> Biquad(rbj_lowpass(fc))]
LR4Highpass(fc) == [s1 |-> Biquad(rbj_highpass(fc)), s2 |-> Biquad(rbj_highpass(fc))]

\* LR4Lowpass.process / LR4Highpass.process: s2.process(s1.process(x)).
LR4_process(f, x) ==
    LET r1 == Biquad_process(f.s1, x)
        r2 == Biquad_process(f.s2, r1.y)
    IN  [f |-> [s1 |-> r1.q, s2 |-> r2.q], y |-> r2.y]

\* EQIsolator(sr=SR) with its four chains in full; x, y: the block it was
\* last given and the block it returned.
Isolator ==
    [low_cut |-> 250, high_cut |-> 2500, gains |-> <<0, 0, 0>>,
     lp_low |-> LR4Lowpass(250), hp_mid |-> LR4Highpass(250),
     lp_mid |-> LR4Lowpass(2500), hp_high |-> LR4Highpass(2500),
     x |-> << >>, y |-> << >>]

\* EQIsolator.set_sample_rate leaving the four chains as they are.
Isolator_set_sample_rate_keep(e) == e

\* EQIsolator.set_sample_rate(SR), lines 175-178: four new chains for the
\* stored cutoffs.
Isolator_set_sample_rate(e) ==
    [e EXCEPT !.lp_low = LR4Lowpass(e.low_cut), !.hp_mid = LR4Highpass(e.low_cut),
              !.lp_mid = LR4Lowpass(e.high_cut), !.hp_high = LR4Highpass(e.high_cut)]

\* EQIsolator.set_crossovers on the isolator in full: the isolator
\* afterwards, and raised.
Isolator_set_crossovers(e, low_cut, high_cut) ==
    IF ~CrossoversOk(low_cut, high_cut, SR)
    THEN [raised |-> TRUE, e |-> e]
    ELSE [raised |-> FALSE,
          e |-> Isolator_set_sample_rate([e EXCEPT !.low_cut = low_cut,
                                                   !.high_cut = high_cut])]

\* gl * low + gm * mid + gh * high on one sample, gains in 1/LinDen.
Band(g, s) == (g * s) \div LinDen

\* EQIsolator.process on the block x: the isolator afterwards, and raised.
Isolator_process(e, x) ==
    IF Len(x) = 0 THEN [raised |-> FALSE, e |-> [e EXCEPT !.x = x, !.y = x]]
    ELSE LET low == LR4_process(e.lp_low, x)
             hpm == LR4_process(e.hp_mid, x)
             mid == LR4_process(e.lp_mid, hpm.y)
             high == LR4_process(e.hp_high, x)
             gl == db_to_lin(e.gains[1])
             gm == db_to_lin(e.gains[2])
             gh == db_to_lin(e.gains[3])
             ran == [e EXCEPT !.lp_low = low.f, !.hp_mid = hpm.f,
                              !.lp_mid = mid.f, !.hp_high = high.f, !.x = x]
         IN  IF gl.raised \/ gm.raised \/ gh.raised
             THEN [raised |-> TRUE, e |-> [ran EXCEPT !.y = << >>]]
             ELSE [raised |-> FALSE,
                   e |-> [ran EXCEPT !.y =
                            [n \in 1..Len(x) |->
                               [ch \in 1..2 |->
                                  Band(gl.g, low.y[n][ch]) + Band(gm.g, mid.y[n][ch])
                                     + Band(gh.g, high.y[n][ch])]]]]

\* The filters on the bench.  bq: one Biquad q, the state q0 it had when the
\* bench last looked at it, and everything given to it (x) and returned by
\* it (y) in the `calls` calls of process made since; was: the Biquad as the
\* last reset() found it.  iso: one isolator.
OnBench(q) ==
    [q |-> q, q0 |-> q, x |-> << >>, y |-> << >>, calls |-> 0, was |-> << >>]
\* Nothing on the bench: the engine's own isolators are in eq.
Bench ==
    /\ bq = << >>
    /\ iso = << >>

\* ------------------------------------------------------------------- ghosts
\* raised: the exception the call or callback just made ended with.
ErrSr == "Sample rate != engine SR"
ErrShape == "PCM must be shape (N, 2)"
ErrDeck == "deck must be 'A' or 'B'"
ErrBroadcast == "could not broadcast input array"
ErrOverflow == "OverflowError"
ErrCross == "Choose sensible crossover frequencies (0 < low_cut < high_cut < Nyquist)."
ErrNoStream == "'NoneType' object has no attribute 'start'"
ErrNoStop == "'NoneType' object has no attribute 'stop'"
ErrNoClose == "'NoneType' object has no attribute 'close'"
ErrClosed == "PortAudioError"

\* out: what the step just made was and saw.  cb: it was a callback; blk: the
\* block each deck rendered in it (copied buffer frames from row `first`,
\* then pad zeros); op, pre: for a load_pcm that got as far as the lock, the
\* call and the named deck's transport state before it (op alone for a
\* goto_hotcue of an index that is not set); ran: the block went through the
\* deck's EQ; live: it did so with samples or filter state in it, through a
\* band that is open; y: one sample of the
\* mix and, once dlv is set, of the block handed to the device.
NoBlock == [copied |-> 0, first |-> 0, pad |-> 0, done |-> FALSE, live |-> FALSE,
            ran |-> FALSE]
NoPre == [playhead |-> 0, playing |-> FALSE, rate |-> 0, cues |-> 0]
NoOut == [cb |-> FALSE, blk |-> [d \in Decks |-> NoBlock], op |-> "", pre |-> NoPre,
          dlv |-> FALSE, y |-> 0]
Pre(deck) ==
    IF deck_of(deck) = "ValueError" THEN NoPre
    ELSE [playhead |-> playhead[deck_of(deck)], playing |-> playing[deck_of(deck)],
          rate |-> rate[deck_of(deck)],
          cues |-> Cardinality(DOMAIN hotcues[deck_of(deck)])]
Seen(op, deck) == [NoOut EXCEPT !.op = op, !.pre = Pre(deck)]

\* AudioEngine(sr): the engine as __init__ leaves it.
AudioEngine(sr) ==
    /\ self_sr = sr
    /\ stages = DeckStages
    /\ buffer = [d \in Decks |-> 0]
    /\ frames = [d \in Decks |-> 0]
    /\ playhead = [d \in Decks |-> 0]
    /\ rate = [d \in Decks |-> RateDen]
    /\ playing = [d \in Decks |-> FALSE]
    /\ hotcues = [d \in Decks |-> << >>]
    /\ eq = [d \in Decks |-> EQIsolator_init]
    /\ crossfader = 5
    /\ chanA = GainDen
    /\ chanB = GainDen
    /\ stream = 0
    /\ devs = [s \in StreamIds |-> "free"]
    /\ raised = "none"
    /\ out = NoOut
    /\ steps = 0
    /\ pc = [t \in Threads |-> [at |-> "idle", deck |-> ""]]
    /\ rt = [at |-> "idle", s |-> 0]
    /\ lock = "none"

\* The engine the application builds: AudioEngine(sr=SR).
Init == AudioEngine(SR) /\ Bench

\* ------------------------------------------------------------- output stream
\* A stream handle not in use; 0 when the device can hold no more.
FreshStream ==
    IF \E s \in StreamIds : devs[s] = "free" /\ s # stream
    THEN CHOOSE s \in StreamIds :
            /\ devs[s] = "free" /\ s # stream
            /\ \A u \in StreamIds : (devs[u] = "free" /\ u # stream) => s <= u
    ELSE 0

\* AudioEngine._ensure_stream run to completion: a stream is created and
\* started unless self.stream is an active one.  A replaced handle that was
\* not active is dropped.
NeedStream == stream = 0 \/ devs[stream] # "active"
ensure_stream ==
    IF NeedStream
    THEN /\ FreshStream # 0
         /\ stream' = FreshStream
         /\ devs' = [s \in StreamIds |->
                        IF s = FreshStream THEN "active"
                        ELSE IF s = stream THEN "free"
                        ELSE devs[s]]
    ELSE UNCHANGED streamVars

\* ------------------------------------------------------------ control calls
\* AudioEngine.load_pcm
load_store(d, pcm) ==
    /\ buffer' = [buffer EXCEPT ![d] = pcm]
    /\ frames' = [frames EXCEPT ![d] = Pcm[pcm][1]]
    /\ playhead' = [playhead EXCEPT ![d] = 0]
    /\ playing' = [playing EXCEPT ![d] = FALSE]
    /\ rate' = [rate EXCEPT ![d] = RateDen]
    /\ hotcues' = [hotcues EXCEPT ![d] = [k \in {} |-> 0]]
    /\ eq' = [eq EXCEPT ![d] = set_sample_rate(eq[d], self_sr)]

\* buffer[d] names the caller's array deck d was loaded from.  Line 53 stores
\* pcm.astype(np.float32, copy=False): the caller's array itself when it is
\* float32 already, a new converted array otherwise.  Two decks hold the same
\* array object when both were loaded from the same float32 array.
SameObject(d, e) ==
    /\ buffer[d] # 0
    /\ buffer[d] = buffer[e]
    /\ PcmDtype[buffer[d]] = "float32"

\* load_pcm looking at the array's shape only after the deck was reset.
load_pcm_late(deck, pcm, sr) ==
    /\ IF sr # self_sr
       THEN raised' = ErrSr /\ UNCHANGED deckVars
       ELSE IF deck_of(deck) = "ValueError"
       THEN raised' = ErrDeck /\ UNCHANGED deckVars
       ELSE /\ load_store(deck_of(deck), pcm)
            /\ raised' = (IF Len(Pcm[pcm]) # 2 \/ Pcm[pcm][2] # CHANNELS
                          THEN ErrShape ELSE "none")
    /\ out' = (IF raised' = "none" THEN Seen("load_pcm", deck) ELSE NoOut)
    /\ UNCHANGED <<mixVars, streamVars>>

\* load_pcm keeping the hot cues and the rate of the previous track.
load_pcm_keep(deck, pcm, sr) ==
    /\ IF sr # self_sr
       THEN raised' = ErrSr /\ UNCHANGED deckVars
       ELSE IF Len(Pcm[pcm]) # 2 \/ Pcm[pcm][2] # CHANNELS
       THEN raised' = ErrShape /\ UNCHANGED deckVars
       ELSE IF deck_of(deck) = "ValueError"
       THEN raised' = ErrDeck /\ UNCHANGED deckVars
       ELSE /\ raised' = "none"
            /\ buffer' = [buffer EXCEPT ![deck_of(deck)] = pcm]
            /\ frames' = [frames EXCEPT ![deck_of(deck)] = Pcm[pcm][1]]
            /\ playhead' = [playhead EXCEPT ![deck_of(deck)] = 0]
            /\ playing' = [playing EXCEPT ![deck_of(deck)] = FALSE]
            /\ eq' = [eq EXCEPT ![deck_of(deck)] = set_sample_rate(eq[deck_of(deck)], self_sr)]
            /\ UNCHANGED <<rate, hotcues>>
    /\ out' = (IF raised' = "none" THEN Seen("load_pcm", deck) ELSE NoOut)
    /\ UNCHANGED <<mixVars, streamVars>>

load_pcm(deck, pcm, sr) ==
    /\ IF sr # self_sr
       THEN raised' = ErrSr /\ UNCHANGED deckVars
       ELSE IF Len(Pcm[pcm]) # 2 \/ Pcm[pcm][2] # CHANNELS
       THEN raised' = ErrShape /\ UNCHANGED deckVars
       ELSE IF deck_of(deck) = "ValueError"
       THEN raised' = ErrDeck /\ UNCHANGED deckVars
       ELSE raised' = "none" /\ load_store(deck_of(deck), pcm)
    /\ out' = (IF raised' = "none" THEN Seen("load_pcm", deck) ELSE NoOut)
    /\ UNCHANGED <<mixVars, streamVars>>

\* AudioEngine.play, the part under the lock (lines 62-63).
play_locked(deck) ==
    /\ IF deck_of(deck) = "ValueError"
       THEN /\ raised' = ErrDeck
            /\ UNCHANGED playing
       ELSE /\ playing' = [playing EXCEPT ![deck_of(deck)] = TRUE]
            /\ raised' = "none"
    /\ out' = NoOut
    /\ UNCHANGED <<buffer, frames, playhead, rate, hotcues, eq, mixVars>>

\* play making sure of the stream whether or not the identifier was known.
play_eager(deck) ==
    /\ play_locked(deck)
    /\ ensure_stream

\* AudioEngine.play by a single caller: _ensure_stream runs unless _deck raised.
play(deck) ==
    /\ play_locked(deck)
    /\ IF deck_of(deck) = "ValueError" THEN UNCHANGED streamVars ELSE ensure_stream

\* AudioEngine.pause stopping both decks.
pause_both(deck) ==
    /\ IF deck_of(deck) = "ValueError"
       THEN /\ raised' = ErrDeck
            /\ UNCHANGED playing
       ELSE /\ playing' = [d \in Decks |-> FALSE]
            /\ raised' = "none"
    /\ out' = NoOut
    /\ UNCHANGED <<buffer, frames, playhead, rate, hotcues, eq, mixVars, streamVars>>

\* AudioEngine.pause
pause(deck) ==
    /\ IF deck_of(deck) = "ValueError"
       THEN /\ raised' = ErrDeck
            /\ UNCHANGED playing
       ELSE /\ playing' = [playing EXCEPT ![deck_of(deck)] = FALSE]
            /\ raised' = "none"
    /\ out' = NoOut
    /\ UNCHANGED <<buffer, frames, playhead, rate, hotcues, eq, mixVars, streamVars>>

\* toggle_play switching the deck on whatever it was doing.
toggle_locked_on(deck) ==
    /\ IF deck_of(deck) = "ValueError"
       THEN /\ raised' = ErrDeck
            /\ UNCHANGED playing
       ELSE /\ playing' = [playing EXCEPT ![deck_of(deck)] = TRUE]
            /\ raised' = "none"
    /\ out' = NoOut
    /\ UNCHANGED <<buffer, frames, playhead, rate, hotcues, eq, mixVars>>

\* AudioEngine.toggle_play, the part under the lock (lines 71-73).
toggle_locked(deck) ==
    /\ IF deck_of(deck) = "ValueError"
       THEN /\ raised' = ErrDeck
            /\ UNCHANGED playing
       ELSE /\ playing' = [playing EXCEPT ![deck_of(deck)] = ~playing[deck_of(deck)]]
            /\ raised' = "none"
    /\ out' = NoOut
    /\ UNCHANGED <<buffer, frames, playhead, rate, hotcues, eq, mixVars>>

\* AudioEngine.toggle_play by a single caller.
toggle_play(deck) ==
    /\ toggle_locked(deck)
    /\ IF deck_of(deck) = "ValueError" THEN UNCHANGED streamVars ELSE ensure_stream

\* AudioEngine.seek_frames
seek_frames(deck, frame_index) ==
    /\ IF deck_of(deck) = "ValueError"
       THEN /\ raised' = ErrDeck
            /\ UNCHANGED playhead
       ELSE /\ raised' = "none"
            /\ IF buffer[deck_of(deck)] = 0
               THEN UNCHANGED playhead
               ELSE playhead' = [playhead EXCEPT ![deck_of(deck)] =
                        PosDen * Clip(frame_index, 0, frames[deck_of(deck)] - 1)]
    /\ out' = NoOut
    /\ UNCHANGED <<buffer, frames, rate, playing, hotcues, eq, mixVars, streamVars>>

\* AudioEngine.set_rate
set_rate(deck, r) ==
    /\ IF deck_of(deck) = "ValueError"
       THEN /\ raised' = ErrDeck
            /\ UNCHANGED rate
       ELSE /\ rate' = [rate EXCEPT ![deck_of(deck)] = r]
            /\ raised' = "none"
    /\ out' = NoOut
    /\ UNCHANGED <<buffer, frames, playhead, playing, hotcues, eq, mixVars, streamVars>>

\* AudioEngine.get_position: returns int(playhead); reads only.
get_position(deck) ==
    /\ raised' = (IF deck_of(deck) = "ValueError" THEN ErrDeck ELSE "none")
    /\ out' = NoOut
    /\ UNCHANGED engineVars

\* AudioEngine.get_duration: returns int(frames); reads only.
get_duration(deck) ==
    /\ raised' = (IF deck_of(deck) = "ValueError" THEN ErrDeck ELSE "none")
    /\ out' = NoOut
    /\ UNCHANGED engineVars

\* set_hotcue rounding the playhead up instead of truncating it.
set_hotcue_round(deck, idx) ==
    /\ IF deck_of(deck) = "ValueError"
       THEN /\ raised' = ErrDeck
            /\ UNCHANGED hotcues
       ELSE /\ hotcues' = [hotcues EXCEPT ![deck_of(deck)] =
                    [k \in (DOMAIN hotcues[deck_of(deck)]) \cup {idx} |->
                        IF k = idx
                        THEN (playhead[deck_of(deck)] + PosDen - 1) \div PosDen
                        ELSE hotcues[deck_of(deck)][k]]]
            /\ raised' = "none"
    /\ out' = NoOut
    /\ UNCHANGED <<buffer, frames, playhead, rate, playing, eq, mixVars, streamVars>>

\* AudioEngine.set_hotcue
set_hotcue(deck, idx) ==
    /\ IF deck_of(deck) = "ValueError"
       THEN /\ raised' = ErrDeck
            /\ UNCHANGED hotcues
       ELSE /\ hotcues' = [hotcues EXCEPT ![deck_of(deck)] =
                    [k \in (DOMAIN hotcues[deck_of(deck)]) \cup {idx} |->
                        IF k = idx THEN Trunc(playhead[deck_of(deck)])
                        ELSE hotcues[deck_of(deck)][k]]]
            /\ raised' = "none"
    /\ out' = NoOut
    /\ UNCHANGED <<buffer, frames, playhead, rate, playing, eq, mixVars, streamVars>>

\* What a goto_hotcue leaves in `out`: the call's name when the index was
\* not in the deck's table.
SeenGoto(deck, idx) ==
    IF deck_of(deck) # "ValueError" /\ idx \notin DOMAIN hotcues[deck_of(deck)]
    THEN [NoOut EXCEPT !.op = "goto_hotcue"]
    ELSE NoOut

\* goto_hotcue falling back to frame 0 for an index that is not set.
goto_hotcue_zero(deck, idx) ==
    /\ IF deck_of(deck) = "ValueError"
       THEN /\ raised' = ErrDeck
            /\ UNCHANGED playhead
       ELSE /\ raised' = "none"
            /\ playhead' = [playhead EXCEPT ![deck_of(deck)] =
                    IF idx \in DOMAIN hotcues[deck_of(deck)]
                    THEN PosDen * hotcues[deck_of(deck)][idx]
                    ELSE 0]
    /\ out' = SeenGoto(deck, idx)
    /\ UNCHANGED <<buffer, frames, rate, playing, hotcues, eq, mixVars, streamVars>>

\* AudioEngine.goto_hotcue
goto_hotcue(deck, idx) ==
    /\ IF deck_of(deck) = "ValueError"
       THEN /\ raised' = ErrDeck
            /\ UNCHANGED playhead
       ELSE /\ raised' = "none"
            /\ IF idx \in DOMAIN hotcues[deck_of(deck)]
               THEN playhead' = [playhead EXCEPT ![deck_of(deck)] =
                        PosDen * hotcues[deck_of(deck)][idx]]
               ELSE UNCHANGED playhead
    /\ out' = SeenGoto(deck, idx)
    /\ UNCHANGED <<buffer, frames, rate, playing, hotcues, eq, mixVars, streamVars>>

\* AudioEngine.set_eq
set_eq(deck, g) ==
    /\ IF deck_of(deck) = "ValueError"
       THEN /\ raised' = ErrDeck
            /\ UNCHANGED eq
       ELSE /\ eq' = [eq EXCEPT ![deck_of(deck)] = set_gains_db(eq[deck_of(deck)], EqArgs[g])]
            /\ raised' = "none"
    /\ out' = NoOut
    /\ UNCHANGED <<buffer, frames, playhead, rate, playing, hotcues, mixVars, streamVars>>

\* AudioEngine.set_crossfader
set_crossfader(xf) ==
    /\ crossfader' = Clamp01(xf)
    /\ raised' = "none"
    /\ out' = NoOut
    /\ UNCHANGED <<deckVars, chanA, chanB, streamVars>>

\* AudioEngine.set_channel_gain: an identifier that is neither A nor B falls
\* through both branches and the call returns normally.
set_channel_gain(deck, gain) ==
    /\ chanA' = IF Upper(deck) = "A" THEN Clamp01(gain) ELSE chanA
    /\ chanB' = IF Upper(deck) # "A" /\ Upper(deck) = "B" THEN Clamp01(gain) ELSE chanB
    /\ raised' = "none"
    /\ out' = NoOut
    /\ UNCHANGED <<deckVars, crossfader, streamVars>>

\* AudioEngine.close: stop() and close() the stream, then drop the handle.
close ==
    /\ IF stream # 0
       THEN /\ devs' = [devs EXCEPT ![stream] = "free"]
            /\ stream' = 0
       ELSE UNCHANGED streamVars
    /\ raised' = "none"
    /\ out' = NoOut
    /\ UNCHANGED <<deckVars, mixVars>>

\* ------------------------------------------------------------------ render
\* playhead += frames * rate, in 1/PosDen frame.
Advance(n, r) == (n * r * PosDen) \div RateDen

\* _render_deck wrapping around to the start at the end of the buffer.
render_deck_loop(d, n) ==
    LET start == Trunc(playhead[d])
        end == Min(start + n, frames[d])
        want == end - start
        got == PySliceLen(frames[d], start, end)
        ph1 == playhead[d] + Advance(n, rate[d])
        eot == ph1 >= PosDen * frames[d]
        copied == IF end > start THEN want ELSE 0
    IN  IF buffer[d] # 0 /\ playing[d]
        THEN [raised |-> end > start /\ got # want /\ got # 1,
              copied |-> copied,
              first |-> PyIndex(start, frames[d]),
              pad |-> n - copied,
              playhead |-> IF eot THEN 0 ELSE ph1,
              playing |-> TRUE,
              eq |-> eq_process(eq[d], copied),
              eqraised |-> EqRaises(eq[d]),
              ran |-> TRUE,
              live |-> eq_process(eq[d], copied).dirty /\ EqOpen(eq[d])]
        ELSE [raised |-> FALSE, copied |-> 0, first |-> 0, pad |-> n,
              playhead |-> playhead[d], playing |-> playing[d], eq |-> eq[d],
              eqraised |-> FALSE, ran |-> FALSE, live |-> FALSE]

\* _render_deck passing the block through the deck's EQ whether or not the
\* deck plays.
render_deck_eq(d, n) ==
    LET start == Trunc(playhead[d])
        end == Min(start + n, frames[d])
        want == end - start
        got == PySliceLen(frames[d], start, end)
        ph1 == playhead[d] + Advance(n, rate[d])
        eot == ph1 >= PosDen * frames[d]
        copied == IF end > start THEN want ELSE 0
    IN  IF buffer[d] # 0 /\ playing[d]
        THEN [raised |-> end > start /\ got # want /\ got # 1,
              copied |-> copied,
              first |-> PyIndex(start, frames[d]),
              pad |-> n - copied,
              playhead |-> IF eot THEN PosDen * (frames[d] - 1) ELSE ph1,
              playing |-> ~eot,
              eq |-> eq_process(eq[d], copied),
              eqraised |-> EqRaises(eq[d]),
              ran |-> TRUE,
              live |-> eq_process(eq[d], copied).dirty /\ EqOpen(eq[d])]
        ELSE [raised |-> FALSE, copied |-> 0, first |-> 0, pad |-> n,
              playhead |-> playhead[d], playing |-> playing[d],
              eq |-> eq_process(eq[d], 0),
              eqraised |-> EqRaises(eq[d]),
              ran |-> TRUE,
              live |-> eq[d].dirty /\ EqOpen(eq[d])]

\* AudioEngine._render_deck(d, n) on the current state: whether the slice
\* assignment raises, the block produced (copied buffer frames starting at
\* buffer row `first`, then `pad` zero frames) and the deck fields afterwards;
\* eqraised: d.eq.process raises (line 152), after the deck has advanced and
\* its filters have run.
render_deck(d, n) ==
    LET start == Trunc(playhead[d])
        end == Min(start + n, frames[d])
        want == end - start
        got == PySliceLen(frames[d], start, end)
        ph1 == playhead[d] + Advance(n, rate[d])
        eot == ph1 >= PosDen * frames[d]
        copied == IF end > start THEN want ELSE 0
    IN  IF buffer[d] # 0 /\ playing[d]
        THEN [raised |-> end > start /\ got # want /\ got # 1,
              copied |-> copied,
              first |-> PyIndex(start, frames[d]),
              pad |-> n - copied,
              playhead |-> IF eot THEN PosDen * (frames[d] - 1) ELSE ph1,
              playing |-> ~eot,
              eq |-> eq_process(eq[d], copied),
              eqraised |-> EqRaises(eq[d]),
              ran |-> TRUE,
              live |-> eq_process(eq[d], copied).dirty /\ EqOpen(eq[d])]
        ELSE [raised |-> FALSE, copied |-> 0, first |-> 0, pad |-> n,
              playhead |-> playhead[d], playing |-> playing[d], eq |-> eq[d],
              eqraised |-> FALSE, ran |-> FALSE, live |-> FALSE]

Block(r) == [copied |-> r.copied, first |-> r.first, pad |-> r.pad, done |-> TRUE,
             live |-> r.live, ran |-> r.ran]

\* Samples a rendered block can hold at one position: zero unless it is live.
Samples(live) == IF live THEN SampleArgs ELSE {0}

\* _callback lines 159-166 at one sample position: a = xa * chanA,
\* b = xb * chanB, mix = gA * a + gB * b.
Mix(xa, xb) ==
    FAdd(FMul3(Cos(crossfader), chanA, xa), FMul3(Sin(crossfader), chanB, xb))

\* AudioEngine._callback, invoked by an active stream s with BLOCKSIZE frames.
\* Deck A is rendered, then deck B; an exception leaves what was already
\* rendered in place and, escaping the callback, aborts the stream.
callback(s) ==
    LET ra == render_deck("A", BLOCKSIZE)
        rb == render_deck("B", BLOCKSIZE)
        okA == ~ra.raised /\ ~ra.eqraised
        okB == okA /\ ~rb.raised /\ ~rb.eqraised
        res == [d \in Decks |-> IF d = "A" THEN ra ELSE rb]
        ok == [d \in Decks |-> IF d = "A" THEN okA ELSE okB]
        adv == [d \in Decks |-> IF d = "A" THEN ~ra.raised ELSE okA /\ ~rb.raised]
    IN  /\ devs[s] = "active"
        /\ playhead' = [d \in Decks |-> IF adv[d] THEN res[d].playhead ELSE playhead[d]]
        /\ playing' = [d \in Decks |-> IF adv[d] THEN res[d].playing ELSE playing[d]]
        /\ eq' = [d \in Decks |-> IF adv[d] THEN res[d].eq ELSE eq[d]]
        /\ \E xa \in Samples(okB /\ ra.live), xb \in Samples(okB /\ rb.live) :
              out' = [NoOut EXCEPT !.cb = TRUE,
                          !.blk = [d \in Decks |-> IF ok[d] THEN Block(res[d]) ELSE NoBlock],
                          !.dlv = okB,
                          !.y = IF okB THEN np_clip(Mix(xa, xb)) ELSE 0]
        /\ raised' = (IF okB THEN "none"
                       ELSE IF ra.raised \/ (okA /\ rb.raised) THEN ErrBroadcast
                       ELSE ErrOverflow)
        /\ devs' = IF okB THEN devs ELSE [devs EXCEPT ![s] = "aborted"]
        /\ UNCHANGED <<buffer, frames, rate, hotcues, mixVars, stream>>

\* ------------------------------------------------------------ specification
\* Any caller, both decks, at most MaxSteps calls and callbacks.
Tick ==
    /\ steps < MaxSteps
    /\ steps' = steps + 1
    /\ UNCHANGED <<threadVars, self_sr, benchVars, stages>>

Next ==
    \/ \E deck \in DeckArgs, pcm \in PcmArgs, sr \in SrArgs : Tick /\ load_pcm(deck, pcm, sr)
    \/ \E deck \in DeckArgs : Tick /\ play(deck)
    \/ \E deck \in DeckArgs : Tick /\ pause(deck)
    \/ \E deck \in DeckArgs : Tick /\ toggle_play(deck)
    \/ \E deck \in DeckArgs, i \in SeekArgs : Tick /\ seek_frames(deck, i)
    \/ \E deck \in DeckArgs, r \in RateArgs : Tick /\ set_rate(deck, r)
    \/ \E deck \in DeckArgs : Tick /\ get_position(deck)
    \/ \E deck \in DeckArgs : Tick /\ get_duration(deck)
    \/ \E deck \in DeckArgs, idx \in CueArgs : Tick /\ set_hotcue(deck, idx)
    \/ \E deck \in DeckArgs, idx \in CueArgs : Tick /\ goto_hotcue(deck, idx)
    \/ \E deck \in DeckArgs, g \in DOMAIN EqArgs : Tick /\ set_eq(deck, g)
    \/ \E deck \in DeckArgs, gain \in GainArgs : Tick /\ set_channel_gain(deck, gain)
    \/ \E xf \in XfArgs : Tick /\ set_crossfader(xf)
    \/ Tick /\ close
    \/ \E s \in StreamIds : Tick /\ callback(s)

Spec == Init /\ [][Next]_vars

\* A session that is played out: at most MaxSteps control calls, and the
\* callbacks of the stream for as long as it is active, which the device
\* makes one after the other.
PlayOut == UNCHANGED <<steps, threadVars, self_sr, benchVars, stages>>

NextPlay ==
    \/ \E deck \in DeckArgs, pcm \in PcmArgs, sr \in SrArgs : Tick /\ load_pcm(deck, pcm, sr)
    \/ \E deck \in DeckArgs : Tick /\ play(deck)
    \/ \E deck \in DeckArgs : Tick /\ pause(deck)
    \/ \E deck \in DeckArgs, i \in SeekArgs : Tick /\ seek_frames(deck, i)
    \/ \E deck \in DeckArgs, r \in RateArgs : Tick /\ set_rate(deck, r)
    \/ \E deck \in DeckArgs, g \in DOMAIN EqArgs : Tick /\ set_eq(deck, g)
    \/ \E s \in StreamIds : PlayOut /\ callback(s)

SpecPlay ==
    /\ Init
    /\ [][NextPlay]_vars
    /\ WF_vars(\E s \in StreamIds : PlayOut /\ callback(s))

\* The calls that name a deck, on both decks, and the callback: at most
\* MaxDeckSteps of them.
MaxDeckSteps == 3
TickDecks ==
    /\ steps < MaxDeckSteps
    /\ steps' = steps + 1
    /\ UNCHANGED <<threadVars, self_sr, benchVars, stages>>

NextDecks ==
    \/ \E deck \in DeckArgs, pcm \in PcmArgs, sr \in SrArgs : TickDecks /\ load_pcm(deck, pcm, sr)
    \/ \E deck \in DeckArgs : TickDecks /\ play(deck)
    \/ \E deck \in DeckArgs : TickDecks /\ pause(deck)
    \/ \E deck \in DeckArgs : TickDecks /\ toggle_play(deck)
    \/ \E deck \in DeckArgs, i \in SeekArgs : TickDecks /\ seek_frames(deck, i)
    \/ \E deck \in DeckArgs, r \in RateArgs : TickDecks /\ set_rate(deck, r)
    \/ \E deck \in DeckArgs, idx \in CueArgs : TickDecks /\ set_hotcue(deck, idx)
    \/ \E deck \in DeckArgs, idx \in CueArgs : TickDecks /\ goto_hotcue(deck, idx)
    \/ \E deck \in DeckArgs, g \in DOMAIN EqArgs : TickDecks /\ set_eq(deck, g)
    \/ \E deck \in DeckArgs, gain \in GainArgs : TickDecks /\ set_channel_gain(deck, gain)
    \/ \E s \in StreamIds : TickDecks /\ callback(s)

SpecDecks == Init /\ [][NextDecks]_vars

\* The same calls on an engine built with any of the rates a caller may name.
InitBuild == (\E sr \in SrArgs : AudioEngine(sr)) /\ Bench
SpecBuild == InitBuild /\ [][Next]_vars

\* A transport session on one deck: load, play/pause, seek, rate and hot-cue
\* calls, close and the callback; a call may name a deck while the other one
\* is still as constructed.  At most MaxTransportSteps calls and callbacks.
Other(d) == IF d = "A" THEN "B" ELSE "A"
AsBuilt(d) ==
    /\ buffer[d] = 0 /\ playhead[d] = 0 /\ rate[d] = RateDen /\ ~playing[d]
    /\ DOMAIN hotcues[d] = {}
    /\ eq[d] = EQIsolator_init
    /\ (IF d = "A" THEN chanA ELSE chanB) = GainDen

TickTransport ==
    /\ steps < MaxTransportSteps
    /\ steps' = steps + 1
    /\ UNCHANGED <<threadVars, self_sr, benchVars, stages>>

Solo(deck) ==
    /\ TickTransport
    /\ deck_of(deck) \in Decks => AsBuilt(Other(deck_of(deck)))

NextTransport ==
    \/ \E deck \in DeckArgs, pcm \in PcmArgs, sr \in SrArgs : Solo(deck) /\ load_pcm(deck, pcm, sr)
    \/ \E deck \in DeckArgs : Solo(deck) /\ play(deck)
    \/ \E deck \in DeckArgs : Solo(deck) /\ pause(deck)
    \/ \E deck \in DeckArgs : Solo(deck) /\ toggle_play(deck)
    \/ \E deck \in DeckArgs, i \in SeekArgs : Solo(deck) /\ seek_frames(deck, i)
    \/ \E deck \in DeckArgs, r \in RateArgs : Solo(deck) /\ set_rate(deck, r)
    \/ \E deck \in DeckArgs, idx \in CueArgs : Solo(deck) /\ set_hotcue(deck, idx)
    \/ \E deck \in DeckArgs, idx \in CueArgs : Solo(deck) /\ goto_hotcue(deck, idx)
    \/ TickTransport /\ close
    \/ \E s \in StreamIds : TickTransport /\ callback(s)

SpecTransport == Init /\ [][NextTransport]_vars

\* ------------------------------------------------------ isolators directly
\* The calls of the EQIsolator class made on a deck's isolator by a caller
\* that holds it, one call per step.
SeenEq(op) == [NoOut EXCEPT !.op = op]
EqOnly == UNCHANGED <<buffer, frames, playhead, rate, playing, hotcues, mixVars, streamVars>>

\* d.eq = EQIsolator(sr, low_cut, high_cut); a constructor that raises binds
\* nothing.
isolator_new(d, sr, low_cut, high_cut) ==
    LET r == EQIsolator(sr, low_cut, high_cut)
    IN  /\ raised' = IF r.raised THEN ErrCross ELSE "none"
        /\ eq' = IF r.raised THEN eq ELSE [eq EXCEPT ![d] = r.e]
        /\ out' = SeenEq("EQIsolator")
        /\ EqOnly
        /\ stages' = IF r.raised THEN stages ELSE NewIsolator(stages, d)

\* d.eq.set_crossovers(low_cut, high_cut)
isolator_set_crossovers(d, low_cut, high_cut) ==
    LET r == set_crossovers(eq[d], low_cut, high_cut)
    IN  /\ raised' = IF r.raised THEN ErrCross ELSE "none"
        /\ eq' = [eq EXCEPT ![d] = r.e]
        /\ out' = SeenEq("set_crossovers")
        /\ EqOnly
        /\ stages' = IF r.raised THEN stages ELSE Rebuild(stages, d, 1)

\* d.eq.set_sample_rate(sr), sr a positive integer
isolator_set_sample_rate(d, sr) ==
    /\ eq' = [eq EXCEPT ![d] = set_sample_rate(eq[d], sr)]
    /\ raised' = "none"
    /\ out' = SeenEq("set_sample_rate")
    /\ EqOnly
    /\ stages' = Rebuild(stages, d, 1)

\* d.eq.set_gains_db(low, mid, high)
isolator_set_gains_db(d, g) ==
    /\ eq' = [eq EXCEPT ![d] = set_gains_db(eq[d], EqArgs[g])]
    /\ raised' = "none"
    /\ out' = SeenEq("set_gains_db")
    /\ EqOnly
    /\ UNCHANGED stages

\* d.eq.process(x): an empty block comes back as it is (lines 195-196); any
\* other goes through the four chains and then takes the band gains.
isolator_process(d, x) ==
    /\ IF x = "empty"
       THEN /\ UNCHANGED eq
            /\ raised' = "none"
       ELSE /\ eq' = [eq EXCEPT ![d] = eq_process(eq[d], IF x = "signal" THEN 1 ELSE 0)]
            /\ raised' = IF EqRaises(eq[d]) THEN ErrOverflow ELSE "none"
    /\ out' = SeenEq("process")
    /\ EqOnly
    /\ UNCHANGED stages

\* d.eq.reset()
isolator_reset(d) ==
    /\ eq' = [eq EXCEPT ![d] = reset(eq[d])]
    /\ raised' = "none"
    /\ out' = SeenEq("reset")
    /\ EqOnly
    /\ UNCHANGED stages

TickEq ==
    /\ steps < MaxEqSteps
    /\ steps' = steps + 1
    /\ UNCHANGED <<threadVars, self_sr, benchVars>>

NextEq ==
    \/ \E d \in Decks, sr \in EqSrArgs, lo \in CutArgs, hi \in CutArgs :
          TickEq /\ isolator_new(d, sr, lo, hi)
    \/ \E d \in Decks, lo \in CutArgs, hi \in CutArgs :
          TickEq /\ isolator_set_crossovers(d, lo, hi)
    \/ \E d \in Decks, sr \in EqSrArgs : TickEq /\ isolator_set_sample_rate(d, sr)
    \/ \E d \in Decks, g \in DOMAIN EqArgs : TickEq /\ isolator_set_gains_db(d, g)
    \/ \E d \in Decks, x \in BlockArgs : TickEq /\ isolator_process(d, x)
    \/ \E d \in Decks : TickEq /\ isolator_reset(d)

SpecEq == Init /\ [][NextEq]_vars

\* --------------------------------------------------- filters on the bench
\* One Biquad and one isolator driven directly, block by block.
BenchOnly == UNCHANGED <<engineVars, threadVars, self_sr, stages>>

\* Cutoffs given to the isolator on the bench.
BenchCutArgs == {250, 2500}

BqArgs ==
    {[q EXCEPT !.z1L = z[1], !.z2L = z[2], !.z1R = z[3], !.z2R = z[4]] :
        q \in {Biquad(rbj_lowpass(2500)), Biquad(rbj_highpass(250))}, z \in StateArgs}

\* y = q.process(x)
bench_biquad_process(x) ==
    LET r == Biquad_process(bq.q, x)
    IN  /\ bq' = [bq EXCEPT !.q = r.q, !.x = bq.x \o x, !.y = bq.y \o r.y,
                            !.calls = bq.calls + 1]
        /\ raised' = "none"
        /\ out' = SeenEq("Biquad.process")
        /\ UNCHANGED iso
        /\ BenchOnly

\* q.reset()
bench_biquad_reset ==
    /\ bq' = [OnBench(Biquad_reset(bq.q)) EXCEPT !.was = bq.q]
    /\ raised' = "none"
    /\ out' = SeenEq("Biquad.reset")
    /\ UNCHANGED iso
    /\ BenchOnly

\* y = e.process(x)
bench_isolator_process(sig) ==
    LET r == Isolator_process(iso, Signals[sig])
    IN  /\ iso' = r.e
        /\ raised' = IF r.raised THEN ErrOverflow ELSE "none"
        /\ out' = SeenEq("EQIsolator.process")
        /\ UNCHANGED bq
        /\ BenchOnly

\* e.set_gains_db(low, mid, high)
bench_isolator_set_gains_db(g) ==
    /\ iso' = [iso EXCEPT !.gains = EqArgs[g]]
    /\ raised' = "none"
    /\ out' = SeenEq("EQIsolator.set_gains_db")
    /\ UNCHANGED bq
    /\ BenchOnly

\* e.set_sample_rate(SR)
bench_isolator_set_sample_rate ==
    /\ iso' = Isolator_set_sample_rate(iso)
    /\ raised' = "none"
    /\ out' = SeenEq("EQIsolator.set_sample_rate")
    /\ UNCHANGED bq
    /\ BenchOnly

\* e.set_crossovers(low_cut, high_cut)
bench_isolator_set_crossovers(low_cut, high_cut) ==
    LET r == Isolator_set_crossovers(iso, low_cut, high_cut)
    IN  /\ iso' = r.e
        /\ raised' = IF r.raised THEN ErrCross ELSE "none"
        /\ out' = SeenEq("EQIsolator.set_crossovers")
        /\ UNCHANGED bq
        /\ BenchOnly

TickFilter ==
    /\ steps < MaxFilterSteps
    /\ steps' = steps + 1

\* One object is on the bench at a time: a Biquad, or an isolator.
InitFilter ==
    /\ AudioEngine(SR)
    /\ \/ bq \in {OnBench(q) : q \in BqArgs} /\ iso = << >>
       \/ bq = << >> /\ iso = Isolator

NextFilter ==
    \/ \E x \in RowBlocks : TickFilter /\ bq # << >> /\ bench_biquad_process(x)
    \/ TickFilter /\ bq # << >> /\ bench_biquad_reset
    \/ \E sig \in DOMAIN Signals :
          TickFilter /\ iso # << >> /\ bench_isolator_process(sig)
    \/ \E g \in DOMAIN EqArgs :
          TickFilter /\ iso # << >> /\ bench_isolator_set_gains_db(g)
    \/ TickFilter /\ iso # << >> /\ bench_isolator_set_sample_rate
    \/ \E lo \in BenchCutArgs, hi \in BenchCutArgs :
          TickFilter /\ iso # << >> /\ bench_isolator_set_crossovers(lo, hi)

SpecFilter == InitFilter /\ [][NextFilter]_vars

\* ------------------------------------------------------- concurrent callers
\* Control threads and the device's callback thread, statement by statement
\* where the code runs outside the lock.  A method body that runs entirely
\* inside `with self.lock:` is one step, taken when the lock is free.
\* pc[t].at: "idle", "play"/"toggle" (lock taken, lines 62/71), "ensure"
\* (line 129), "create" (line 130), "start" (line 137), "stop" (line 173),
\* "close" (line 174), "clear" (line 176).
\* rt.at: "idle", "acquire" (line 158), "deckA" (159), "deckB" (160),
\* "mix" (163-166), "copy" (168); rt.s: the stream that called back.
\* Stream handles: "free", "created" (open, not started), "active",
\* "aborted", "stopped", "closed".
At(t, a) == pc[t].at = a
Goto(t, a, deck) == pc' = [pc EXCEPT ![t] = [at |-> a, deck |-> deck]]
Idle == [at |-> "idle", deck |-> ""]

TickConc ==
    /\ steps < MaxConcSteps
    /\ steps' = steps + 1
    /\ UNCHANGED <<self_sr, benchVars, stages>>

\* A handle self.stream no longer refers to: a running stream keeps running.
Drop(h) == IF devs[h] = "active" THEN "active" ELSE "free"

\* A method that runs its statements without taking the lock.
Locked_free(t) ==
    /\ At(t, "idle")
    /\ UNCHANGED threadVars

\* A method that holds the lock from its first to its last statement.
Locked(t) ==
    /\ At(t, "idle")
    /\ lock = "none"
    /\ UNCHANGED threadVars

\* play / toggle_play, line 62 / 71: the lock is taken.
c_acquire(t, a, deck) ==
    /\ At(t, "idle")
    /\ lock = "none"
    /\ lock' = t
    /\ Goto(t, a, deck)
    /\ UNCHANGED <<engineVars, raised, out, rt>>

\* play, lines 63-64, leaving the lock held.
c_play_hold(t) ==
    /\ At(t, "play")
    /\ play_locked(pc[t].deck)
    /\ lock' = lock
    /\ Goto(t, IF deck_of(pc[t].deck) = "ValueError" THEN "idle" ELSE "ensure", "")
    /\ UNCHANGED <<streamVars, rt>>

\* play, lines 63-64: the flag is set and the lock released; _deck may raise.
c_play(t) ==
    /\ At(t, "play")
    /\ play_locked(pc[t].deck)
    /\ lock' = "none"
    /\ Goto(t, IF deck_of(pc[t].deck) = "ValueError" THEN "idle" ELSE "ensure", "")
    /\ UNCHANGED <<streamVars, rt>>

\* toggle_play, lines 72-74.
c_toggle(t) ==
    /\ At(t, "toggle")
    /\ toggle_locked(pc[t].deck)
    /\ lock' = "none"
    /\ Goto(t, IF deck_of(pc[t].deck) = "ValueError" THEN "idle" ELSE "ensure", "")
    /\ UNCHANGED <<streamVars, rt>>

\* _ensure_stream, line 129: self.stream is read.
c_ensure(t) ==
    /\ At(t, "ensure")
    /\ Goto(t, IF NeedStream THEN "create" ELSE "idle", "")
    /\ UNCHANGED <<engineVars, raised, out, rt, lock>>

\* _ensure_stream, lines 130-136: a stream is opened and stored.
c_create(t) ==
    /\ At(t, "create")
    /\ FreshStream # 0
    /\ stream' = FreshStream
    /\ devs' = [s \in StreamIds |->
                    IF s = FreshStream THEN "created"
                    ELSE IF s = stream THEN Drop(s)
                    ELSE devs[s]]
    /\ Goto(t, "start", "")
    /\ UNCHANGED <<deckVars, mixVars, raised, out, rt, lock>>

\* _ensure_stream, line 137: self.stream is read again and started.
\* Starting a running stream does nothing; no stream or a closed one raises.
c_start(t) ==
    /\ At(t, "start")
    /\ IF stream = 0
       THEN /\ raised' = ErrNoStream
            /\ UNCHANGED devs
       ELSE /\ raised' = (IF devs[stream] = "closed" THEN ErrClosed ELSE "none")
            /\ devs' = [devs EXCEPT ![stream] =
                            IF devs[stream] = "closed" THEN "closed" ELSE "active"]
    /\ Goto(t, "idle", "")
    /\ UNCHANGED <<deckVars, mixVars, stream, out, rt, lock>>

\* close, line 171: self.stream is read.
c_close(t) ==
    /\ At(t, "idle")
    /\ Goto(t, IF stream # 0 THEN "stop" ELSE "idle", "")
    /\ raised' = "none"
    /\ out' = NoOut
    /\ UNCHANGED <<engineVars, rt, lock>>

\* close, line 173: stop() returns once the stream's callback has returned.
\* With self.stream gone the call raises and `finally` (line 176) runs next.
c_stop(t) ==
    /\ At(t, "stop")
    /\ IF stream = 0
       THEN /\ raised' = ErrNoStop
            /\ Goto(t, "clear", "")
            /\ UNCHANGED devs
       ELSE /\ ~(rt.at # "idle" /\ rt.s = stream)
            /\ raised' = "none"
            /\ devs' = [devs EXCEPT ![stream] =
                            IF devs[stream] = "closed" THEN "closed" ELSE "stopped"]
            /\ Goto(t, "close", "")
    /\ UNCHANGED <<deckVars, mixVars, stream, out, rt, lock>>

\* close, line 174: closing a stream that is running aborts it first, which
\* like stop() returns once the stream's callback has returned.
c_closeh(t) ==
    /\ At(t, "close")
    /\ IF stream = 0
       THEN /\ raised' = ErrNoClose
            /\ Goto(t, "clear", "")
            /\ UNCHANGED devs
       ELSE /\ ~(rt.at # "idle" /\ rt.s = stream)
            /\ raised' = "none"
            /\ devs' = [devs EXCEPT ![stream] = "closed"]
            /\ Goto(t, "clear", "")
    /\ UNCHANGED <<deckVars, mixVars, stream, out, rt, lock>>

\* close leaving the handle in place.
c_clear_keep(t) ==
    /\ At(t, "clear")
    /\ Goto(t, "idle", "")
    /\ UNCHANGED <<engineVars, raised, out, rt, lock>>

\* close, line 176: runs after line 174 and after an exception in 173 / 174,
\* which then leaves close().
c_clear(t) ==
    /\ At(t, "clear")
    /\ stream' = 0
    /\ devs' = [s \in StreamIds |-> IF s = stream THEN Drop(s) ELSE devs[s]]
    /\ Goto(t, "idle", "")
    /\ UNCHANGED <<deckVars, mixVars, raised, out, rt, lock>>

\* _callback, lines 155-157: an active stream calls back.
cb_enter(s) ==
    /\ rt.at = "idle"
    /\ devs[s] = "active"
    /\ rt' = [at |-> "acquire", s |-> s]
    /\ UNCHANGED <<engineVars, raised, out, pc, lock>>

\* _callback, line 158.
cb_acquire ==
    /\ rt.at = "acquire"
    /\ lock = "none"
    /\ lock' = "rt"
    /\ rt' = [rt EXCEPT !.at = "deckA"]
    /\ out' = [NoOut EXCEPT !.cb = TRUE]
    /\ raised' = "none"
    /\ UNCHANGED <<engineVars, pc>>

\* _callback, line 159 / 160: one deck is rendered; an exception leaves the
\* `with` block and the callback, and aborts the stream.
cb_deck(d) ==
    LET r == render_deck(d, BLOCKSIZE)
    IN  /\ rt.at = (IF d = "A" THEN "deckA" ELSE "deckB")
        /\ IF r.raised
           THEN /\ raised' = ErrBroadcast
                /\ lock' = "none"
                /\ rt' = [at |-> "idle", s |-> 0]
                /\ devs' = [devs EXCEPT ![rt.s] = "aborted"]
                /\ UNCHANGED <<playhead, playing, eq, out>>
           ELSE IF r.eqraised
           THEN /\ raised' = ErrOverflow
                /\ lock' = "none"
                /\ rt' = [at |-> "idle", s |-> 0]
                /\ devs' = [devs EXCEPT ![rt.s] = "aborted"]
                /\ playhead' = [playhead EXCEPT ![d] = r.playhead]
                /\ playing' = [playing EXCEPT ![d] = r.playing]
                /\ eq' = [eq EXCEPT ![d] = r.eq]
                /\ UNCHANGED out
           ELSE /\ playhead' = [playhead EXCEPT ![d] = r.playhead]
                /\ playing' = [playing EXCEPT ![d] = r.playing]
                /\ eq' = [eq EXCEPT ![d] = r.eq]
                /\ out' = [out EXCEPT !.blk[d] = Block(r)]
                /\ rt' = [rt EXCEPT !.at = IF d = "A" THEN "deckB" ELSE "mix"]
                /\ UNCHANGED <<raised, lock, devs>>
        /\ UNCHANGED <<buffer, frames, rate, hotcues, mixVars, stream, pc>>

\* _callback, lines 163-166: the mix is computed and the lock released.
cb_mix ==
    /\ rt.at = "mix"
    /\ lock' = "none"
    /\ rt' = [rt EXCEPT !.at = "copy"]
    /\ \E xa \in Samples(out.blk["A"].live), xb \in Samples(out.blk["B"].live) :
          out' = [out EXCEPT !.y = Mix(xa, xb)]
    /\ UNCHANGED <<engineVars, raised, pc>>

\* _callback, line 168: the block is handed to the device.
cb_copy ==
    /\ rt.at = "copy"
    /\ rt' = [at |-> "idle", s |-> 0]
    /\ out' = [out EXCEPT !.y = np_clip(out.y), !.dlv = TRUE]
    /\ UNCHANGED <<engineVars, raised, pc, lock>>

NextConc ==
    \/ \E t \in Threads, deck \in DeckArgs, pcm \in ConcPcmArgs : TickConc /\ Locked(t) /\ load_pcm(deck, pcm, self_sr)
    \/ \E t \in Threads, deck \in DeckArgs : TickConc /\ Locked(t) /\ pause(deck)
    \/ \E t \in Threads, xf \in XfArgs : TickConc /\ Locked(t) /\ set_crossfader(xf)
    \/ \E t \in Threads, deck \in DeckArgs : TickConc /\ c_acquire(t, "play", deck)
    \/ \E t \in Threads, deck \in DeckArgs : TickConc /\ c_acquire(t, "toggle", deck)
    \/ \E t \in Threads : TickConc /\ c_play(t)
    \/ \E t \in Threads : TickConc /\ c_toggle(t)
    \/ \E t \in Threads : TickConc /\ c_ensure(t)
    \/ \E t \in Threads : TickConc /\ c_create(t)
    \/ \E t \in Threads : TickConc /\ c_start(t)
    \/ \E t \in Threads : TickConc /\ c_close(t)
    \/ \E t \in Threads : TickConc /\ c_stop(t)
    \/ \E t \in Threads : TickConc /\ c_closeh(t)
    \/ \E t \in Threads : TickConc /\ c_clear(t)
    \/ \E s \in StreamIds : TickConc /\ cb_enter(s)
    \/ TickConc /\ cb_acquire
    \/ \E d \in Decks : TickConc /\ cb_deck(d)
    \/ TickConc /\ cb_mix
    \/ TickConc /\ cb_copy

SpecConc == Init /\ [][NextConc]_vars

\* ---------------------------------------------------- threads, run to the end
\* At most MaxLiveCalls calls and callbacks begin; one that has begun runs on
\* for as long as its next statement can run.
MaxLiveCalls == 4

\* A call or a callback begins.
StartLive ==
    /\ steps < MaxLiveCalls
    /\ steps' = steps + 1
    /\ UNCHANGED <<self_sr, benchVars, stages>>

\* The next statement of a call or a callback that has begun.
StepLive == UNCHANGED <<steps, self_sr, benchVars, stages>>

\* play / toggle_play from line 63 / 72 on, close from line 173 on, in
\* thread t.
ThreadStep(t) ==
    /\ StepLive
    /\ \/ c_play(t)
       \/ c_toggle(t)
       \/ c_ensure(t)
       \/ c_create(t)
       \/ c_start(t)
       \/ c_stop(t)
       \/ c_closeh(t)
       \/ c_clear(t)

\* _callback from line 158 on.
CallbackStep ==
    /\ StepLive
    /\ \/ cb_acquire
       \/ \E d \in Decks : cb_deck(d)
       \/ cb_mix
       \/ cb_copy

NextLive ==
    \/ \E t \in Threads, deck \in DeckArgs, pcm \in ConcPcmArgs :
          StartLive /\ Locked(t) /\ load_pcm(deck, pcm, self_sr)
    \/ \E t \in Threads, deck \in DeckArgs : StartLive /\ Locked(t) /\ pause(deck)
    \/ \E t \in Threads, deck \in DeckArgs : StartLive /\ c_acquire(t, "play", deck)
    \/ \E t \in Threads, deck \in DeckArgs : StartLive /\ c_acquire(t, "toggle", deck)
    \/ \E t \in Threads : StartLive /\ c_close(t)
    \/ \E s \in StreamIds : StartLive /\ cb_enter(s)
    \/ \E t \in Threads : ThreadStep(t)
    \/ CallbackStep

\* The interpreter and the device keep running every thread that has a
\* statement it can execute.
SpecLive ==
    /\ Init
    /\ [][NextLive]_vars
    /\ \A t \in Threads : WF_vars(ThreadStep(t))
    /\ WF_vars(CallbackStep)

\* Every call that takes a deck identifier, made with identifier `deck`.
DeckCall(deck) ==
    \/ \E pcm \in PcmArgs, sr \in SrArgs : load_pcm(deck, pcm, sr)
    \/ play(deck)
    \/ pause(deck)
    \/ toggle_play(deck)
    \/ \E i \in SeekArgs : seek_frames(deck, i)
    \/ \E r \in RateArgs : set_rate(deck, r)
    \/ get_position(deck)
    \/ get_duration(deck)
    \/ \E idx \in CueArgs : set_hotcue(deck, idx)
    \/ \E idx \in CueArgs : goto_hotcue(deck, idx)
    \/ \E g \in DOMAIN EqArgs : set_eq(deck, g)
    \/ \E gain \in GainArgs : set_channel_gain(deck, gain)

\* An identifier that is neither A nor B in either case.
UnknownDeck(deck) == deck \notin {"A", "a", "B", "b"}

\* ------------------------------------------------------------------- claims

\* C1: whenever no operation is in progress, every deck's playhead lies in
\* [0, frames].
PlayheadInRange ==
    \A d \in Decks : 0 <= playhead[d] /\ playhead[d] <= PosDen * frames[d]

\* C2: a render callback never ends with an exception.
CallbackNeverRaises == out.cb => raised = "none"

\* C5: seek_frames(deck, i) on a loaded deck leaves the position at i clamped
\* into [0, frames-1] (0 for a negative i, frames-1 for i >= frames); on a
\* deck without a buffer it changes nothing.
SeekTarget(i, n) == IF i < 0 THEN 0 ELSE IF i >= n THEN n - 1 ELSE i
SeekClamps ==
    [][\A deck \in DeckArgs, i \in SeekArgs :
          (~UnknownDeck(deck) /\ seek_frames(deck, i)) =>
              LET d == Upper(deck)
              IN  IF buffer[d] = 0
                  THEN UNCHANGED engineVars
                  ELSE playhead'[d] = PosDen * SeekTarget(i, frames[d])]_vars

\* C9: every call that takes a deck identifier ends with an error when the
\* identifier is neither A nor B.
UnknownDeckRaises ==
    [][\A deck \in DeckArgs :
          (UnknownDeck(deck) /\ DeckCall(deck)) => raised' # "none"]_vars

\* C3: a thread about to read or write shared engine state (deck, mixer or
\* EQ state, or the stream handle) holds the engine lock.
LockHeldForSharedState ==
    /\ \A t \in Threads :
          pc[t].at \in {"play", "toggle", "ensure", "create", "start",
                        "stop", "close", "clear"} => lock = t
    /\ rt.at \in {"deckA", "deckB", "mix"} => lock = "rt"

HotcueRoundTrip ==
    [][\A d \in Decks, k \in CueArgs :
          LET named == {deck \in DeckArgs : Upper(deck) = d}
              set == \E deck \in named : set_hotcue(deck, k)
              load == \E deck \in named, pcm \in PcmArgs, sr \in SrArgs :
                          load_pcm(deck, pcm, sr)
              goto == \E deck \in named : goto_hotcue(deck, k)
              stored == /\ k \in DOMAIN hotcues'[d]
                        /\ hotcues'[d][k] = Trunc(playhead[d])
              kept == /\ k \in DOMAIN hotcues'[d]
                      /\ hotcues'[d][k] = hotcues[d][k]
          IN  /\ stored \/ ~set
              /\ k \in DOMAIN hotcues[d] =>
                    /\ kept \/ set \/ load
                    /\ playhead'[d] = PosDen * hotcues[d][k] \/ ~goto]_vars

\* A cue taken at playhead 128.5 holds frame 128, and the playhead stands at
\* 128.0, a position only goto_hotcue leads to.
HotcueWitness ==
    \E d \in Decks, k \in CueArgs :
        /\ k \in DOMAIN hotcues[d]
        /\ hotcues[d][k] = 128
        /\ playhead[d] = PosDen * 128
        /\ frames[d] = 300

\* C7: a load_pcm with a sample rate other than the engine's, or with an
\* array that is not (N, 2), raises and leaves every deck field as it was.
NotStereo(pcm) == ~(Len(Pcm[pcm]) = 2 /\ Pcm[pcm][2] = 2)
FailedLoadKeepsDeck ==
    [][\/ raised' # "none" /\ UNCHANGED deckVars
       \/ ~\E deck \in DeckArgs, pcm \in PcmArgs, sr \in SrArgs :
              /\ sr # 48000 \/ NotStereo(pcm)
              /\ load_pcm(deck, pcm, sr)]_vars

\* A load was refused on a deck that is playing mid-track at a changed rate
\* with a hot cue set.
FailedLoadWitness ==
    /\ raised \in {ErrSr, ErrShape}
    /\ \E d \in Decks :
          /\ buffer[d] # 0 /\ playing[d] /\ playhead[d] > 0
          /\ rate[d] # RateDen /\ DOMAIN hotcues[d] # {}

\* C8: a load_pcm that succeeds leaves the deck with the new buffer, its
\* length as frames, playhead 0, stopped, rate 1.0, no hot cues, and an EQ at
\* the engine's sample rate whose filter state is zero.
LoadResets ==
    [][\A deck \in DeckArgs, pcm \in PcmArgs, sr \in SrArgs :
          LET d == Upper(deck)
          IN  \/ out'.op # "load_pcm"
              \/ /\ d \in Decks
                 /\ buffer'[d] = pcm
                 /\ frames'[d] = Pcm[pcm][1]
                 /\ playhead'[d] = 0
                 /\ ~playing'[d]
                 /\ rate'[d] = RateDen
                 /\ DOMAIN hotcues'[d] = {}
                 /\ eq'[d].sr = SR
                 /\ ~eq'[d].dirty
              \/ ~(raised' = "none" /\ load_pcm(deck, pcm, sr))]_vars

\* A load has just succeeded on a deck that was playing mid-track at a
\* changed rate with a hot cue set.
LoadWitness ==
    /\ out.op = "load_pcm" /\ raised = "none"
    /\ out.pre.playing /\ out.pre.playhead > 0
    /\ out.pre.rate # RateDen /\ out.pre.cues > 0
    /\ \E d \in Decks : buffer[d] # 0 /\ playhead[d] = 0 /\ ~playing[d]

\* C10: a control call that ends with a configuration or invalid-argument
\* error leaves decks, mixer, EQ and stream as they were.
FailedCallChangesNothing ==
    [][raised' \in {ErrSr, ErrShape, ErrDeck} => UNCHANGED engineVars]_vars

\* A call naming an unknown deck was refused on an engine with a buffer
\* loaded and sought into, and no stream was started.
FailedCallWitness ==
    /\ raised = ErrDeck
    /\ stream = 0
    /\ \E d \in Decks : buffer[d] # 0 /\ playhead[d] > 0

\* The output stream as the engine sees it.
Stopped == stream = 0
Running == stream # 0 /\ devs[stream] = "active"

\* C11: the stream is Stopped at construction; only play and toggle_play
\* (their _ensure_stream) take it out of Stopped; a play or toggle_play that
\* ends without an exception leaves it Running; close() ends with the handle
\* released, also when its stop() or close() statement raised.  Stated for a
\* single caller (whole calls) and for concurrent callers (their statements).
StreamStateMachine ==
    /\ Init => Stopped
    /\ [][/\ (Stopped /\ ~Stopped') =>
                \/ \E t \in Threads : c_create(t)
                \/ \E deck \in DeckArgs : play(deck) \/ toggle_play(deck)
          /\ \A deck \in DeckArgs :
                ((play(deck) \/ toggle_play(deck)) /\ raised' = "none") => Running'
          /\ close => Stopped'
          /\ \A t \in Threads :
                /\ (c_start(t) /\ raised' = "none") => Running'
                /\ (c_ensure(t) /\ pc'[t].at = "idle") => Running'
                /\ (c_stop(t) \/ c_closeh(t)) => pc'[t].at \in {"close", "clear"}
                /\ c_clear(t) => Stopped' /\ pc'[t].at = "idle"]_vars

\* A close() whose stop() raised (another close had already dropped the
\* handle) has returned, and the engine is Stopped.
StreamStateMachineWitness ==
    /\ raised = ErrNoStop
    /\ Stopped
    /\ \A t \in Threads : pc[t].at = "idle"

\* C12: once the stream is Running it stays Running under every step other
\* than close() (pause, load_pcm, seek_frames, callbacks that reach the end
\* of a track or find both decks paused, ...), and pause changes nothing but
\* the named deck's playing flag.
StreamStaysRunning ==
    [][/\ Running => (Running' \/ close)
       /\ \A deck \in DeckArgs :
             pause(deck) => UNCHANGED <<buffer, frames, playhead, rate, hotcues,
                                        eq, mixVars, streamVars>>]_vars

\* C13: once close() has returned and until a play or toggle_play is made
\* (the handle is absent and no caller is inside a call), no render callback
\* is in flight and no device stream is left running to make one.
CloseSynchronous ==
    (Stopped /\ \A t \in Threads : pc[t].at = "idle")
        => /\ rt.at = "idle"
           /\ \A s \in StreamIds : devs[s] # "active"

\* C14: the stored crossfader position and both channel gains are numbers in
\* [0, 1] in every reachable state.
InUnit(v) == v # NaN /\ 0 <= v /\ v <= GainDen
MixerInRange == InUnit(crossfader) /\ InUnit(chanA) /\ InUnit(chanB)

\* C15: every sample of a block the callback hands to the device lies in
\* [-1, 1].
DeliveredInRange ==
    out.dlv => out.y # NaN /\ -GainDen <= out.y /\ out.y <= GainDen

\* C17: the buffer deck A holds and the buffer deck B holds are never the same
\* array object.
BuffersNotAliased == ~SameObject("A", "B")

\* C18: an index enters a deck's hot-cue table only by set_hotcue on that
\* deck and index, and a successful load_pcm empties the table; goto_hotcue
\* on an index that is not in the table raises nothing and changes nothing.
GotoUnsetIsNoOp ==
    [][\A deck \in DeckArgs, k \in CueArgs :
          LET d == Upper(deck)
              named == {a \in DeckArgs : Upper(a) = d}
          IN  d \in Decks =>
                /\ (k \notin DOMAIN hotcues[d] /\ k \in DOMAIN hotcues'[d])
                      => \E a \in named : set_hotcue(a, k)
                /\ out'.op = "load_pcm" =>
                      \/ DOMAIN hotcues'[d] = {}
                      \/ ~\E pcm \in PcmArgs, sr \in SrArgs : load_pcm(deck, pcm, sr)
                /\ (k \notin DOMAIN hotcues[d] /\ goto_hotcue(deck, k))
                      => raised' = "none" /\ UNCHANGED engineVars]_vars

\* goto_hotcue has just been called with an index that is not set, on a deck
\* that holds another cue and stands at a frame the call did not move it from.
GotoUnsetWitness ==
    /\ out.op = "goto_hotcue" /\ raised = "none"
    /\ \E d \in Decks :
          /\ DOMAIN hotcues[d] = {1}
          /\ playhead[d] > 0
          /\ playhead[d] # PosDen * hotcues[d][1]

\* C19: for every band setting an isolator holds, a setting of -80 dB or
\* less, or one that is not finite, gives the gain 0 exactly and the band
\* adds exactly zero to the output whatever the band's sample; any other
\* setting gives a gain above 0.
Killed(db) == ~IsFinite(db) \/ db <= -80
EqKill ==
    \A d \in Decks, band \in 1..3 :
        LET db == eq[d].gains[band]
            r == db_to_lin(db)
        IN  /\ ~r.raised
            /\ IF Killed(db)
               THEN r.g = 0 /\ \A x \in SampleArgs : r.g * x = 0
               ELSE r.g > 0

\* C20: constructing an isolator, or calling set_crossovers on one, with a
\* cutoff pair that does not satisfy 0 < lowCut < highCut < 0.45 * sampleRate
\* (lowCut >= highCut included) raises the configuration error; after a
\* rejected set_crossovers the isolator's stored cutoffs and its four filter
\* chains (their design and their state) are what they were.
Violates(lowCut, highCut, sampleRate) ==
    \/ lowCut = NaN \/ highCut = NaN
    \/ ~(0 < lowCut /\ lowCut < highCut /\ 100 * highCut < 45 * sampleRate)
CrossoversRejected ==
    [][/\ out'.op = "EQIsolator" =>
            \/ raised' = ErrCross /\ UNCHANGED eq
            \/ \A d \in Decks, sr \in EqSrArgs, lo \in CutArgs, hi \in CutArgs :
                  ~(Violates(lo, hi, sr) /\ isolator_new(d, sr, lo, hi))
       /\ out'.op = "set_crossovers" =>
            \/ raised' = ErrCross /\ UNCHANGED eq
            \/ \A d \in Decks, lo \in CutArgs, hi \in CutArgs :
                  ~(Violates(lo, hi, eq[d].sr) /\ isolator_set_crossovers(d, lo, hi))]_vars

\* set_crossovers has just been rejected while an isolator held cutoffs other
\* than the defaults and chains with signal in their state.
CrossoversRejectedWitness ==
    /\ out.op = "set_crossovers" /\ raised = ErrCross
    /\ \E d \in Decks :
          /\ eq[d].dirty
          /\ eq[d].low_cut = 2500 /\ eq[d].high_cut = 20000
          /\ eq[d].design = <<2500, 20000, 48000>>
          /\ AsBuilt(Other(d))

\* C21: an engine exists only at the fixed operating sample rate SR that its
\* decks' isolators are built for: AudioEngine(sr) with any other rate raises
\* and leaves no engine behind.
MismatchedRateRejected ==
    /\ self_sr = SR
    /\ \A d \in Decks : buffer[d] = 0 => eq[d].sr = self_sr

\* C22: whenever an isolator whose three band gains are 0 dB has processed a
\* block, every sample of the block it returned is within the tolerance Tol
\* of the sample it was given (low + mid + high is the input again).
Tol == SampDen \div 20
Near(a, b) == a - b <= Tol /\ b - a <= Tol
Reconstructs ==
    (out.op = "EQIsolator.process" /\ raised = "none" /\ iso.gains = <<0, 0, 0>>)
        => \A n \in 1..Len(iso.x) : \A ch \in 1..2 : Near(iso.y[n][ch], iso.x[n][ch])

\* C23: in a callback, a deck that is not playing or holds no buffer keeps
\* its playhead, playing flag, rate, hot cues and EQ, none of its filters
\* runs, and the block rendered for it is BLOCKSIZE rows of zeros.
IdleDeckUntouched ==
    [][~out'.cb \/
       \A d \in Decks :
          (~playing[d] \/ buffer[d] = 0)
            => /\ playhead'[d] = playhead[d]
               /\ playing'[d] = playing[d]
               /\ rate'[d] = rate[d]
               /\ hotcues'[d] = hotcues[d]
               /\ eq'[d] = eq[d]
               /\ out'.blk[d].done =>
                    /\ out'.blk[d].copied = 0
                    /\ out'.blk[d].pad = BLOCKSIZE
                    /\ ~out'.blk[d].ran
                    /\ ~out'.blk[d].live]_vars

\* A deck paused inside its 300-frame track after one block, its filters
\* still holding signal, has just been rendered again: a block of zeros, and
\* the playhead still at 256.
IdleDeckWitness ==
    /\ out.cb /\ raised = "none"
    /\ \E d \in Decks :
          /\ buffer[d] # 0 /\ frames[d] = 300 /\ ~playing[d]
          /\ playhead[d] = PosDen * BLOCKSIZE
          /\ eq[d].dirty
          /\ out.blk[d].done /\ out.blk[d].copied = 0 /\ out.blk[d].pad = BLOCKSIZE

\* C24: a callback that renders a playing deck with a buffer, playhead p and
\* BLOCKSIZE = n rows produces for it, before the EQ, m = min(n, frames -
\* floor(p)) rows copied from buffer row floor(p) on, then n - m rows of
\* zeros, and leaves the playhead at p + n * rate unless that reaches frames.
Floor(ph) == ph \div PosDen
RenderStep ==
    [][~out'.cb \/
       \A d \in Decks :
          (buffer[d] # 0 /\ playing[d])
            => LET start == Floor(playhead[d])
                   m == Min(BLOCKSIZE, frames[d] - start)
                   b == out'.blk[d]
                   ph1 == playhead[d] + Advance(BLOCKSIZE, rate[d])
               IN  /\ raised' = "none"
                   /\ b.done
                   /\ b.copied = m
                   /\ m > 0 => b.first = start
                   /\ b.pad = BLOCKSIZE - m
                   /\ ph1 < PosDen * frames[d] => playhead'[d] = ph1]_vars

\* C25: play, pause and toggle_play on a known deck change nothing but that
\* deck's playing flag and, for play and toggle_play, the stream: buffers,
\* playheads, rates, hot cues, EQs, the mixer and the other deck's flag stay.
\* play leaves the flag set and the stream running, and on a deck that plays
\* with the stream running it changes nothing; pause leaves the flag clear,
\* and on a deck that does not play it changes nothing (so a second play or
\* pause is a no-op); toggle_play inverts the flag, so two in a row restore it.
FlagOnly(d) ==
    /\ UNCHANGED <<buffer, frames, playhead, rate, hotcues, eq, mixVars>>
    /\ playing'[Other(d)] = playing[Other(d)]
TransportFlags ==
    [][\A deck \in DeckArgs :
          LET d == Upper(deck)
          IN  d \in Decks =>
                /\ play(deck) =>
                      /\ FlagOnly(d) /\ playing'[d] /\ Running'
                      /\ (playing[d] /\ Running) => UNCHANGED engineVars
                /\ pause(deck) =>
                      /\ FlagOnly(d) /\ ~playing'[d] /\ UNCHANGED streamVars
                      /\ ~playing[d] => UNCHANGED engineVars
                /\ toggle_play(deck) =>
                      /\ FlagOnly(d) /\ playing'[d] = ~playing[d]]_vars

\* Deck A, loaded, sought to frame 50 and slowed down, plays on a running
\* stream while deck B rests.
TransportFlagsWitness ==
    /\ raised = "none" /\ out = NoOut
    /\ playing["A"] /\ Running /\ ~playing["B"]
    /\ buffer["A"] # 0 /\ playhead["A"] = PosDen * 50 /\ rate["A"] = 257

\* C26: every isolator, whatever constructions, set_sample_rate and
\* set_crossovers calls (accepted or rejected) were made on it, holds a design
\* point with 0 < lowCut < highCut < 0.45 * sampleRate, and its chains are
\* built for that design point.
DesignPoint ==
    \A d \in Decks :
        /\ ~Violates(eq[d].low_cut, eq[d].high_cut, eq[d].sr)
        /\ eq[d].design = <<eq[d].low_cut, eq[d].high_cut, eq[d].sr>>

\* C27: the eight Biquad stages of an isolator are eight different objects,
\* and no Biquad object is a stage of both decks' isolators, in every state
\* and after any number of rebuilds.
StagesExclusive ==
    /\ \A d \in Decks : Cardinality({stages[d][i] : i \in DOMAIN stages[d]}) = 2 * 4
    /\ {stages["A"][i] : i \in DOMAIN stages["A"]}
          \cap {stages["B"][i] : i \in DOMAIN stages["B"]} = {}

\* Both isolators have had their chains replaced, the last call being a
\* set_sample_rate, and none of deck A's stages is the object it was at
\* construction.
StagesExclusiveWitness ==
    /\ out.op = "set_sample_rate"
    /\ stages["B"] # DeckStages["B"]
    /\ \A i \in DOMAIN stages["A"] : stages["A"][i] # DeckStages["A"][i]

\* C28: after set_sample_rate, and after a set_crossovers that did not
\* raise, every state variable of the eight Biquads of the isolator is zero,
\* whatever the isolator processed before, and the three band gains are the
\* ones stored before the call.
Zeroed(f) ==
    \A s \in {f.s1, f.s2} : s.z1L = 0 /\ s.z2L = 0 /\ s.z1R = 0 /\ s.z2R = 0
RebuildZeroes ==
    [][(/\ out'.op \in {"EQIsolator.set_sample_rate", "EQIsolator.set_crossovers"}
        /\ raised' = "none")
          => /\ \A f \in {iso'.lp_low, iso'.hp_mid, iso'.lp_mid, iso'.hp_high} : Zeroed(f)
             /\ iso'.gains = iso.gains]_vars

\* The isolator, its gains set away from 0 dB, has processed a block with
\* sound in it, which left state in its filters, and was then rebuilt by
\* set_crossovers.
RebuildZeroesWitness ==
    /\ out.op = "EQIsolator.set_crossovers"
    /\ raised = "none"
    /\ iso.gains # <<0, 0, 0>>
    /\ \E n \in DOMAIN iso.x : iso.x[n][1] # 0
    /\ \E n \in DOMAIN iso.y : iso.y[n][1] # 0
    /\ \A f \in {iso.lp_low, iso.hp_mid, iso.lp_mid, iso.hp_high} : Zeroed(f)

\* C29: whatever state a Biquad was in, the blocks it returned in the calls
\* of process made since, put end to end, and the state it is left in are
\* those of one call of process on the blocks it was given put end to end;
\* and reset() leaves the four state variables zero and the five
\* coefficients as they were.
BlockSplit ==
    /\ [](bq # << >> =>
            Biquad_loop(bq.q0, bq.x, 1, << >>) = [q |-> bq.q, y |-> bq.y])
    /\ [][out'.op = "Biquad.reset" =>
            /\ bq'.q.z1L = 0 /\ bq'.q.z2L = 0 /\ bq'.q.z1R = 0 /\ bq'.q.z2R = 0
            /\ \A c \in {"b0", "b1", "b2", "a1", "a2"} : bq'.q[c] = bq.q[c]]_vars

\* A Biquad with state left in it was reset and has since been given four
\* rows in two calls of two rows each, which left state in it again.
BlockSplitWitness ==
    /\ bq # << >>
    /\ bq.was # << >>
    /\ bq.was.z1L # 0 /\ bq.was.z2R # 0
    /\ bq.calls = 2
    /\ Len(bq.x) = 2 * MaxBlockLen
    /\ bq.q.z1L # 0 /\ bq.q.z1R # 0

\* C30: from the moment the callback holds the lock until it has computed
\* the mix, the only steps that change a deck's buffer, length, playhead,
\* rate, playing flag, hot cues or isolator, a channel gain or the
\* crossfader are the callback's own, and the callback holds the lock
\* throughout.
InCallback == rt.at \in {"deckA", "deckB", "mix"}
CallbackAtomic ==
    [][InCallback =>
          /\ lock = "rt"
          /\ \/ rt' # rt
             \/ UNCHANGED <<deckVars, mixVars>>]_vars

\* The callback has rendered both decks, deck A from a playing buffer, and is
\* about to compute the mix, while a control thread is inside a call of its
\* own (the stream handling that follows play, or close).
CallbackAtomicWitness ==
    /\ rt.at = "mix"
    /\ lock = "rt"
    /\ out.blk["A"].ran
    /\ \E t \in Threads : pc[t].at # "idle"

\* C31: at most one stream is active at any time, and every active stream is
\* the one self.stream names, so that close() can stop and close it.
SingleStream ==
    /\ Cardinality({s \in StreamIds : devs[s] = "active"}) <= 1
    /\ \A s \in StreamIds : devs[s] = "active" => stream = s

\* C32: a lock that is held is eventually released; a close() that has
\* found a stream to stop eventually returns; and a callback waiting for the
\* lock eventually gets it.
DeadlockFree ==
    /\ (lock # "none") ~> (lock = "none")
    /\ \A t \in Threads : (pc[t].at \in {"stop", "close", "clear"}) ~> (pc[t].at = "idle")
    /\ (rt.at = "acquire") ~> (rt.at # "acquire")

\* close() is about to stop the stream in one thread while the stream's
\* callback waits for the lock, which the other thread holds inside play.
DeadlockFreeWitness ==
    /\ rt.at = "acquire"
    /\ rt.s = stream
    /\ \E t \in Threads : pc[t].at = "stop"
    /\ \E t \in Threads : pc[t].at = "play" /\ lock = t

\* C33: once the control calls are over, a deck that has a buffer and is
\* playing at a rate above zero while the stream is running is eventually
\* stopped with its playhead at frames-1, and a stopped deck stays stopped.
CallsOver == steps = MaxSteps
EventuallyEnds ==
    /\ \A d \in Decks :
          (/\ CallsOver
           /\ buffer[d] # 0 /\ playing[d] /\ rate[d] > 0
           /\ stream # 0 /\ devs[stream] = "active")
             ~> (~playing[d] /\ playhead[d] = PosDen * (frames[d] - 1))
    /\ [][\A d \in Decks : (CallsOver /\ ~playing[d]) => ~playing'[d]]_vars

\* C34: a control call that names deck A or deck B leaves the other deck's
\* buffer, length, playhead, playing flag, rate, hot cues, EQ gains and
\* channel gain as they were, and the crossfader too.
Untouched(d) ==
    /\ buffer'[d] = buffer[d] /\ frames'[d] = frames[d]
    /\ playhead'[d] = playhead[d] /\ playing'[d] = playing[d]
    /\ rate'[d] = rate[d] /\ hotcues'[d] = hotcues[d]
    /\ eq'[d].gains = eq[d].gains
    /\ IF d = "A" THEN chanA' = chanA ELSE chanB' = chanB
DeckIndependent ==
    [][\A d \in Decks :
          \/ Untouched(d) /\ crossfader' = crossfader
          \/ ~\E deck \in DeckArgs : deck_of(deck) = Other(d) /\ DeckCall(deck)]_vars

\* Deck A has just been loaded while deck B, loaded before, stands in the
\* middle of its buffer.
DeckIndependentWitness ==
    /\ out.op = "load_pcm"
    /\ raised = "none"
    /\ buffer["A"] # 0 /\ playhead["A"] = 0 /\ ~playing["A"]
    /\ buffer["B"] # 0 /\ playhead["B"] > 0

====
